---- MODULE Spec2Model ----
(***************************************************************************)
(* exCeption: C++-like exception handling for ANSI C (exception.h).        *)
(*                                                                         *)
(* The library is four macros (try, throw, catch, endcatch) and two        *)
(* helpers (raise_exception, print_exception) over one list of             *)
(* _exception_t_node, headed by _exc_head.  The model is the C abstract    *)
(* machine running a user program that is written with these macros: the   *)
(* program text is a sequence of tokens, the macros are expanded as the    *)
(* preprocessor expands them, and setjmp/longjmp act on a program counter  *)
(* and a stack of call frames.                                             *)
(*                                                                         *)
(*   "try"       try {                                                     *)
(*   "catch"     } catch(type, var) {                                      *)
(*   "endcatch"  } endcatch;     (header usage,  form = "after")           *)
(*               endcatch; }     (README usage,  form = "inside")          *)
(*   "sig"       a user statement that may signal:                         *)
(*               if (c) throw(v);  or  raise_exception(n, r, u);           *)
(*   "call"      call of a user function whose body follows, up to "ret"   *)
(*   "ret"       end of that function                                      *)
(***************************************************************************)
EXTENDS Integers, Sequences, FiniteSets, TLC

VARIABLES prog, form, pc, jv, frames, _exc_head, _exc_node, node, exc,
          var, diag, fault, act, sig, other, thr

vars == <<prog, form, pc, jv, frames, _exc_head, _exc_node, node, exc,
          var, diag, fault, act, sig, other, thr>>

(***************************************************************************)
(* Bounds.                                                                 *)
(***************************************************************************)
MaxProgLen == 7        \* tokens in a user program
MaxNodes == 3          \* _exception_t_node objects the heap can hold
MaxThreadLen == 4      \* tokens in a function that two threads run
MaxExc == 2            \* struct exception_t objects the heap can hold
PtrBits == 5           \* width of a void* in bits (scaled down)

IntBits == PtrBits - 1 \* an int is narrower than a pointer (LP64)

NULL == 0
Uninit == -1           \* content of a field malloc() left unwritten
CountCap == 2          \* bookkeeping counters saturate here

Bump(c) == IF c < CountCap THEN c + 1 ELSE c

(***************************************************************************)
(* Values a user program throws.                                           *)
(***************************************************************************)
IntPayloads == {5, -1}

StructArgs ==
  { <<"BAD_CAST", "a type cast failed", NULL>>,
    <<"BAD_PARAMETER", "negative values are not allowed", 1>> }

\* (void*)e for an int e: the two's complement bit pattern, pointer wide
ToVoidPtr(e) == e % (2 ^ PtrBits)

\* the cast without the sign: the low bits read as an unsigned value
CastInt_unsigned(p) == p % (2 ^ IntBits)

\* (int)p for a void* p: the low IntBits bits, read as a signed int
CastInt(p) ==
  LET low == p % (2 ^ IntBits)
  IN  IF low >= 2 ^ (IntBits - 1) THEN low - 2 ^ IntBits ELSE low

\* (struct exception_t*)p: the address, unchanged
CastExc(p) == p

(***************************************************************************)
(* Program text.                                                           *)
(***************************************************************************)
Blk[n \in 0..(MaxProgLen + 1)] ==
  IF n = 0 THEN {<<>>}
  ELSE {<<"sig">> \o b : b \in Blk[n-1]}
    \cup UNION {UNION {{<<"try">> \o a \o <<"catch">> \o h \o <<"endcatch">> \o r :
              a \in Blk[la], h \in Blk[k-3-la], r \in Blk[n-k]} :
              la \in 0..(k-3)} : k \in 3..n}
    \cup UNION {{<<"call">> \o a \o <<"ret">> \o r :
              a \in Blk[k-2], r \in Blk[n-k]} : k \in 2..n}

Programs == UNION {Blk[n] : n \in 1..MaxProgLen}

\* index of the first token at or after i that closes the bracket opened
\* before i: lvl counts the brackets opened since
RECURSIVE Scan(_, _, _, _, _)
Scan(p, i, lvl, open, close) ==
  IF i > Len(p) THEN Len(p) + 1
  ELSE IF p[i] = close /\ lvl = 0 THEN i
  ELSE IF p[i] = close THEN Scan(p, i + 1, lvl - 1, open, close)
  ELSE IF p[i] = open THEN Scan(p, i + 1, lvl + 1, open, close)
  ELSE Scan(p, i + 1, lvl, open, close)

\* the "catch" of the region whose "try" is token i
RECURSIVE ScanCatch(_, _, _)
ScanCatch(p, i, lvl) ==
  IF i > Len(p) THEN Len(p) + 1
  ELSE IF p[i] = "catch" /\ lvl = 0 THEN i
  ELSE IF p[i] = "try" THEN ScanCatch(p, i + 1, lvl + 1)
  ELSE IF p[i] = "endcatch" THEN ScanCatch(p, i + 1, lvl - 1)
  ELSE ScanCatch(p, i + 1, lvl)

MatchCatch(i) == ScanCatch(prog, i + 1, 0)
MatchEnd(i) == Scan(prog, i + 1, 0, "try", "endcatch")
MatchRet(i) == Scan(prog, i + 1, 0, "call", "ret")

Regions == {i \in DOMAIN prog : prog[i] = "try"}
RegionOfCatch(j) == CHOOSE i \in Regions : MatchCatch(i) = j
RegionOfEnd(j) == CHOOSE i \in Regions : MatchEnd(i) = j

Tok == IF pc \in DOMAIN prog THEN prog[pc] ELSE "end"

(***************************************************************************)
(* The list of nodes.                                                      *)
(***************************************************************************)
Addrs == 1..MaxNodes
ExcAddrs == 1..MaxExc

FreeNode == [used |-> FALSE, jmpbuf |-> [pc |-> 0, depth |-> 0, live |-> FALSE],
             exception |-> Uninit, next |-> NULL]

FreeExc == [used |-> FALSE, name |-> "", reason |-> "", userdata |-> NULL]

\* malloc(): an address not in use.  The program never compares addresses or
\* computes with them, so which free address comes back does not matter to
\* it: the lowest one is taken.
Malloc(free) == {x \in free : \A y \in free : x <= y}

RECURSIVE ListFrom(_, _)
ListFrom(h, fuel) ==
  IF h = NULL \/ fuel = 0 THEN <<>>
  ELSE <<h>> \o ListFrom(node[h].next, fuel - 1)

Stack == ListFrom(_exc_head, MaxNodes)
Depth == Len(Stack)

NoAct == [state |-> "NONE", node |-> NULL, d0 |-> 0, d1 |-> 0,
          pruns |-> 0, hruns |-> 0, writes |-> 0, pops |-> 0]
NoSig == [at |-> 0, kind |-> "none", val |-> 0, args |-> <<>>, target |-> NULL,
          region |-> 0, was |-> "NONE", caught |-> FALSE]
Unbound == [set |-> FALSE, val |-> 0]
\* _exc_head and _exc_node of a source file in which nothing has run yet
NoStatics == [head |-> NULL, node |-> NULL]
\* a program with one thread of control
NoThreads == <<>>

Init ==
  /\ prog \in Programs
  /\ form = "after"
  /\ pc = 1
  /\ jv = 0
  /\ frames = <<>>
  /\ _exc_head = NULL
  /\ _exc_node = NULL
  /\ node = [a \in Addrs |-> FreeNode]
  /\ exc = [a \in ExcAddrs |-> FreeExc]
  /\ var = [i \in 1..Len(prog) |-> Unbound]
  /\ diag = 0
  /\ fault = "none"
  /\ act = [i \in 1..Len(prog) |-> NoAct]
  /\ sig = NoSig
  /\ other = NoStatics
  /\ thr = NoThreads

(***************************************************************************)
(* Where control is, in terms of the program text.                         *)
(***************************************************************************)
\* control point p (with setjmp return value j) lies in region i: after its
\* "try" and not past its "endcatch", or just landed on its setjmp
InRegion(i, p, j) == (i < p /\ p <= MatchEnd(i)) \/ (p = i /\ j = 1)
\* token p is in the handler clause of region i
InHandler(i, p) == MatchCatch(i) < p /\ p < MatchEnd(i)
\* token p is in the protected code of region i
InProtected(i, p) == i < p /\ p < MatchCatch(i)

OpenRegions == {i \in Regions : InRegion(i, pc, jv)}
Enclosing(p) == {i \in Regions : InRegion(i, p, 0)}
MaxOf(S) == IF S = {} THEN 0 ELSE CHOOSE m \in S : \A x \in S : x <= m
Innermost(p) == MaxOf(Enclosing(p))
\* the region that encloses region i directly, 0 when i is outermost
Parent(i) == MaxOf({k \in Regions : k < i /\ MatchEnd(i) < MatchEnd(k)})

Running == fault # "crash"

(***************************************************************************)
(* try, first pass (exception.h:179-188): allocate a node, link it ahead   *)
(* of the head, make it the head, setjmp returns 0 and the protected code  *)
(* runs.                                                                   *)
(***************************************************************************)
\* the new node linked to nothing
PushNode_nolink(a) ==
  [node EXCEPT ![a] = [used |-> TRUE,
                       jmpbuf |-> [pc |-> pc, depth |-> Len(frames), live |-> TRUE],
                       exception |-> Uninit,
                       next |-> NULL]]

PushNode(a) ==
  [node EXCEPT ![a] = [used |-> TRUE,
                       jmpbuf |-> [pc |-> pc, depth |-> Len(frames), live |-> TRUE],
                       exception |-> Uninit,
                       next |-> IF _exc_head # NULL THEN _exc_head ELSE NULL]]

Try ==
  /\ Running /\ Tok = "try" /\ jv = 0
  /\ \E a \in Malloc({x \in Addrs : ~node[x].used}) :
       /\ node' = PushNode(a)
       /\ _exc_node' = a
       /\ _exc_head' = a
       /\ act' = [act EXCEPT ![pc] = [state |-> "ENTERED", node |-> a,
                                      d0 |-> Depth, d1 |-> 0, pruns |-> 1,
                                      hruns |-> 0, writes |-> 0, pops |-> 0]]
  /\ var' = [var EXCEPT ![pc] = Unbound]
  /\ pc' = pc + 1
  /\ UNCHANGED <<other, thr, prog, form, jv, frames, exc, diag, fault, sig>>

(***************************************************************************)
(* catch (exception.h:209-210), reached when setjmp returns 1: the else    *)
(* branch binds var to the head's exception and the handler body runs.     *)
(***************************************************************************)
Cast(kind, p) == IF kind = "exc" THEN CastExc(p) ELSE CastInt(p)

\* the return value of setjmp ignored: the protected code runs again
HandlerStart_rerun(i) == i + 1

HandlerStart(i) == MatchCatch(i) + 1

Catch ==
  /\ Running /\ Tok = "try" /\ jv = 1
  /\ jv' = 0
  /\ IF _exc_head = NULL \/ ~node[_exc_head].used
     THEN /\ fault' = "crash"
          /\ UNCHANGED <<pc, var, act>>
     ELSE /\ \E raw \in IF node[_exc_head].exception = Uninit
                        THEN 0..(2 ^ PtrBits - 1)
                        ELSE {node[_exc_head].exception} :
               var' = [var EXCEPT ![pc] = [set |-> TRUE, val |-> Cast(sig.kind, raw)]]
          /\ pc' = HandlerStart(pc)
          /\ act' = [act EXCEPT ![pc].hruns = Bump(@),
                                ![pc].pruns = IF pc' <= MatchCatch(pc)
                                              THEN Bump(@) ELSE @]
          /\ fault' = fault
  /\ UNCHANGED <<other, thr, prog, form, frames, _exc_head, _exc_node, node, exc, diag, sig>>

(***************************************************************************)
(* End of the protected code: the if branch is done and the else branch    *)
(* (the handler) is skipped.  With "} endcatch;" the pop is the next       *)
(* statement; with "endcatch; }" the pop is inside the else branch and is  *)
(* skipped with it.                                                        *)
(***************************************************************************)
\* the pop left inside the else branch whatever the usage
AfterProtected_skip(i) == MatchEnd(i) + 1

AfterProtected(i) == IF form = "after" THEN MatchEnd(i) ELSE MatchEnd(i) + 1

EndProtected ==
  /\ Running /\ Tok = "catch"
  /\ LET i == RegionOfCatch(pc)
     IN  /\ pc' = AfterProtected(i)
         /\ act' = [act EXCEPT ![i].state = IF pc' > MatchEnd(i) THEN "EXITED"
                                            ELSE "COMPLETED_NORMALLY",
                               ![i].d1 = Depth,
                               ![i].hruns = IF InHandler(i, pc') THEN Bump(@) ELSE @]
  /\ UNCHANGED <<other, thr, prog, form, jv, frames, _exc_head, _exc_node, node, exc,
                 var, diag, fault, sig>>

(***************************************************************************)
(* endcatch (exception.h:218-227): pop the head and free it.               *)
(***************************************************************************)
\* the head cleared without looking at next
PopHead_null == NULL

\* the head left on the node that is freed
PopHead_stay == _exc_head

\* the node kept allocated
Free_none(a) == node

\* free(_exc_node)
Free(a) == [node EXCEPT ![a] = FreeNode]

\* the head moved two nodes down
PopHead_skip2 ==
  IF node[_exc_head].next # NULL THEN node[node[_exc_head].next].next ELSE NULL

PopHead == IF node[_exc_head].next # NULL THEN node[_exc_head].next ELSE NULL

EndCatch ==
  /\ Running /\ Tok = "endcatch"
  /\ IF _exc_head = NULL
     THEN /\ fault' = "crash"
          /\ UNCHANGED <<pc, _exc_head, _exc_node, node, act, var>>
     ELSE /\ _exc_head' = PopHead
          /\ node' = Free(_exc_head)
          /\ _exc_node' = NULL
          /\ pc' = pc + 1
          /\ fault' = fault
          /\ LET i == RegionOfEnd(pc)
                 d == Len(ListFrom(PopHead, MaxNodes))
             IN  /\ act' = [act EXCEPT ![i].state = "EXITED", ![i].d1 = d,
                                       ![i].pops = Bump(@)]
                 /\ var' = [var EXCEPT ![i] = Unbound]
  /\ UNCHANGED <<other, thr, prog, form, jv, frames, exc, diag, sig>>

(***************************************************************************)
(* throw (exception.h:196-202).                                            *)
(***************************************************************************)
MinOf(a, b) == IF a < b THEN a ELSE b

\* the frames above depth d are gone: the jmp_bufs set in them are dead
KillAbove(nd, d) ==
  [a \in Addrs |-> IF nd[a].used /\ nd[a].jmpbuf.depth > d
                   THEN [nd[a] EXCEPT !.jmpbuf.live = FALSE] ELSE nd[a]]

\* the jump taken to the jmp_buf of the node below the head, when there is one
LongJmp_outer(nd) ==
  LET t == IF node[_exc_head].next # NULL THEN node[_exc_head].next ELSE _exc_head
      jb == node[t].jmpbuf
  IN  /\ pc' = jb.pc
      /\ jv' = 1
      /\ frames' = SubSeq(frames, 1, jb.depth)
      /\ node' = KillAbove(nd, jb.depth)
      /\ fault' = fault

\* longjmp(_exc_head->jmpbuf, 1) with the exception stored in nd
LongJmp(nd) ==
  LET jb == node[_exc_head].jmpbuf
  IN  IF node[_exc_head].used /\ jb.live
      THEN /\ pc' = jb.pc
           /\ jv' = 1
           /\ frames' = SubSeq(frames, 1, jb.depth)
           /\ node' = KillAbove(nd, jb.depth)
           /\ fault' = fault
      ELSE \* the function that called setjmp has returned: undefined
           \/ /\ fault' = "crash"
              /\ node' = nd
              /\ UNCHANGED <<pc, jv, frames>>
           \/ /\ fault' = "ub"
              /\ pc' = jb.pc
              /\ jv' = 1
              /\ frames' = SubSeq(frames, 1, MinOf(jb.depth, Len(frames)))
              /\ node' = nd

\* the value written into the slot of every node on the heap
StoreException_all(p) ==
  [a \in Addrs |-> IF node[a].used THEN [node[a] EXCEPT !.exception = p]
                   ELSE node[a]]

\* _exc_head->exception = (void*)e
StoreException(p) == [node EXCEPT ![_exc_head].exception = p]

\* nothing printed
Report_none(d) == d

\* printf("* Uncaught exception occured\n"): one more line on stdout
Report(d) == d + 1

\* throw(e), e of the given kind with C value cval and pointer pattern p;
\* args are the arguments of raise_exception, <<>> for a plain throw
ThrowValue(kind, cval, p, args) ==
  IF _exc_head # NULL
  THEN /\ LongJmp(StoreException(p))
       /\ LET r == node[_exc_head].jmpbuf.pc
          IN  /\ sig' = [at |-> pc, kind |-> kind, val |-> cval, args |-> args,
                         target |-> _exc_head, region |-> r,
                         was |-> IF r \in DOMAIN act THEN act[r].state ELSE "NONE",
                         caught |-> TRUE]
              /\ act' = IF r \in DOMAIN act
                        THEN [act EXCEPT ![r].state = "SIGNALED",
                                         ![r].writes = Bump(@)]
                        ELSE act
       /\ diag' = diag
  ELSE /\ diag < MaxProgLen  \* lines counted: one per statement of the program
       /\ diag' = Report(diag)
       /\ pc' = pc + 1
       /\ sig' = [at |-> pc, kind |-> kind, val |-> cval, args |-> args,
                  target |-> NULL, region |-> 0, was |-> "NONE", caught |-> FALSE]
       /\ UNCHANGED <<jv, frames, node, fault, act>>

Throw ==
  /\ Running /\ Tok = "sig"
  /\ \E v \in IntPayloads : ThrowValue("int", v, ToVoidPtr(v), <<>>)
  /\ UNCHANGED <<other, thr, prog, form, _exc_head, _exc_node, exc, var>>

(***************************************************************************)
(* raise_exception (exception.h:90-97): build a struct exception_t and     *)
(* throw its address.                                                      *)
(***************************************************************************)
\* name and reason stored in each other's field
MakeException_swapped(t) ==
  [used |-> TRUE, name |-> t[2], reason |-> t[1], userdata |-> t[3]]

MakeException(t) ==
  [used |-> TRUE, name |-> t[1], reason |-> t[2], userdata |-> t[3]]

RaiseException ==
  /\ Running /\ Tok = "sig"
  /\ \E t \in StructArgs : \E e \in Malloc({x \in ExcAddrs : ~exc[x].used}) :
       /\ exc' = [exc EXCEPT ![e] = MakeException(t)]
       /\ ThrowValue("exc", e, e, t)
  /\ UNCHANGED <<other, thr, prog, form, _exc_head, _exc_node, var>>

(***************************************************************************)
(* User code around the macros (program.c).                                *)
(***************************************************************************)
\* if (i < 0) throw(...): the condition is false, nothing is thrown
NoThrow ==
  /\ Running /\ Tok = "sig"
  /\ pc' = pc + 1
  /\ UNCHANGED <<other, thr, prog, form, jv, frames, _exc_head, _exc_node, node, exc,
                 var, diag, fault, act, sig>>

\* function(-1);
Call ==
  /\ Running /\ Tok = "call"
  /\ frames' = Append(frames, MatchRet(pc) + 1)
  /\ pc' = pc + 1
  /\ UNCHANGED <<other, thr, prog, form, jv, _exc_head, _exc_node, node, exc,
                 var, diag, fault, act, sig>>

\* the function returns: its frame, and every jmp_buf set in it, is gone
Return ==
  /\ Running /\ Tok = "ret" /\ frames # <<>>
  /\ pc' = frames[Len(frames)]
  /\ frames' = SubSeq(frames, 1, Len(frames) - 1)
  /\ node' = KillAbove(node, Len(frames) - 1)
  /\ UNCHANGED <<other, thr, prog, form, jv, _exc_head, _exc_node, exc,
                 var, diag, fault, act, sig>>

Next ==
  \/ Try
  \/ Catch
  \/ EndProtected
  \/ EndCatch
  \/ Throw
  \/ RaiseException
  \/ NoThrow
  \/ Call
  \/ Return

Spec == Init /\ [][Next]_vars

(***************************************************************************)
(* A program in two source files.  _exc_head and _exc_node are declared    *)
(* static in exception.h, so each source file that includes it has its own *)
(* pair: the names denote the pair of the file whose code is running, and  *)
(* "other" holds the pair of the other file.  Every "call" is a call of a  *)
(* function defined in the other file.                                     *)
(***************************************************************************)
CallOther ==
  /\ Running /\ Tok = "call"
  /\ frames' = Append(frames, MatchRet(pc) + 1)
  /\ pc' = pc + 1
  /\ _exc_head' = other.head
  /\ _exc_node' = other.node
  /\ other' = [head |-> _exc_head, node |-> _exc_node]
  /\ UNCHANGED <<thr, prog, form, jv, node, exc, var, diag, fault, act, sig>>

ReturnOther ==
  /\ Running /\ Tok = "ret" /\ frames # <<>>
  /\ pc' = frames[Len(frames)]
  /\ frames' = SubSeq(frames, 1, Len(frames) - 1)
  /\ node' = KillAbove(node, Len(frames) - 1)
  /\ _exc_head' = other.head
  /\ _exc_node' = other.node
  /\ other' = [head |-> _exc_head, node |-> _exc_node]
  /\ UNCHANGED <<thr, prog, form, jv, exc, var, diag, fault, act, sig>>

NextUnits ==
  \/ Try
  \/ Catch
  \/ EndProtected
  \/ EndCatch
  \/ Throw
  \/ RaiseException
  \/ NoThrow
  \/ CallOther
  \/ ReturnOther

SpecUnits == Init /\ [][NextUnits]_vars

(***************************************************************************)
(* Two threads run the same function, written with the macros, on the one  *)
(* _exc_head and _exc_node of its source file.  Nothing in exception.h     *)
(* synchronizes them, so the statements of the macros interleave: each     *)
(* action below is one statement of a macro, done by one thread.  thr      *)
(* holds, per thread, the token it is at (pc), the statement of the macro  *)
(* it is at (ip) and the value its setjmp returned (jv); per node, the     *)
(* thread that allocated it (own) and the thread whose setjmp filled its   *)
(* jmp_buf (setby); and the set of events seen so far (hit).  A use of a   *)
(* freed node or of another thread's jmp_buf is undefined: the run is not  *)
(* followed further (fault = "ub").                                        *)
(***************************************************************************)
Threads == {1, 2}

ThreadPrograms ==
  {p \in UNION {Blk[n] : n \in 1..MaxThreadLen} :
      \A k \in DOMAIN p : p[k] \notin {"call", "ret"}}

InitThreads ==
  /\ prog \in ThreadPrograms
  /\ form = "after"
  /\ pc = 1
  /\ jv = 0
  /\ frames = <<>>
  /\ _exc_head = NULL
  /\ _exc_node = NULL
  /\ node = [a \in Addrs |-> FreeNode]
  /\ exc = [a \in ExcAddrs |-> FreeExc]
  /\ var = [i \in 1..Len(prog) |-> Unbound]
  /\ diag = 0
  /\ fault = "none"
  /\ act = [i \in 1..Len(prog) |-> NoAct]
  /\ sig = NoSig
  /\ other = NoStatics
  /\ thr = [pc |-> [t \in Threads |-> 1], ip |-> [t \in Threads |-> 0],
            jv |-> [t \in Threads |-> 0],
            own |-> [a \in Addrs |-> 0], setby |-> [a \in Addrs |-> 0],
            hit |-> {}]

TTok(t) == IF thr.pc[t] \in DOMAIN prog THEN prog[thr.pc[t]] ELSE "end"
\* thread t is at statement i of the macro that token tok expands to
At(t, tok, i) == fault = "none" /\ TTok(t) = tok /\ thr.ip[t] = i
\* thread t goes on to statement i of token p
Goto(t, p, i) == [thr EXCEPT !.pc[t] = p, !.ip[t] = i]
\* what the statements of one thread never touch
ThreadFrame == <<prog, form, pc, jv, frames, exc, var, act, sig, other>>
\* a dereference of pointer h: NULL traps, a freed node is undefined
Deref(h) ==
  IF h = NULL THEN "crash" ELSE IF ~node[h].used THEN "ub" ELSE "none"
\* the statement cannot be carried out: the run ends with fault f
Fail(f) ==
  /\ fault' = f
  /\ UNCHANGED <<_exc_head, _exc_node, node, diag, thr>>

\* _exc_node = (void*)0;
TryClear ==
  \E t \in Threads :
    /\ At(t, "try", 0) /\ thr.jv[t] = 0
    /\ _exc_node' = NULL
    /\ thr' = Goto(t, thr.pc[t], 1)
    /\ UNCHANGED <<_exc_head, node, diag, fault>>
    /\ UNCHANGED ThreadFrame

\* _exc_node = malloc(sizeof(struct _exception_t_node));
TryAlloc ==
  \E t \in Threads :
    /\ At(t, "try", 1)
    /\ \E a \in Malloc({x \in Addrs : ~node[x].used}) :
         /\ _exc_node' = a
         /\ node' = [node EXCEPT ![a] = [FreeNode EXCEPT !.used = TRUE,
                                                          !.next = Uninit]]
         /\ thr' = [Goto(t, thr.pc[t], 2) EXCEPT !.own[a] = t, !.setby[a] = 0]
    /\ UNCHANGED <<_exc_head, diag, fault>>
    /\ UNCHANGED ThreadFrame

\* if (_exc_head) _exc_node->next = _exc_head; else _exc_node->next = 0;
TryLink ==
  \E t \in Threads :
    /\ At(t, "try", 2)
    /\ IF Deref(_exc_node) # "none" THEN Fail(Deref(_exc_node))
       ELSE /\ node' = [node EXCEPT ![_exc_node].next =
                           IF _exc_head # NULL THEN _exc_head ELSE NULL]
            /\ thr' = Goto(t, thr.pc[t], 3)
            /\ UNCHANGED <<_exc_head, _exc_node, diag, fault>>
    /\ UNCHANGED ThreadFrame

\* the head left as it was
SetHead_keep == _exc_head

SetHead == _exc_node

\* _exc_head = _exc_node;
TrySetHead ==
  \E t \in Threads :
    /\ At(t, "try", 3)
    /\ _exc_head' = SetHead
    /\ thr' = Goto(t, thr.pc[t], 4)
    /\ UNCHANGED <<_exc_node, node, diag, fault>>
    /\ UNCHANGED ThreadFrame

\* if (!setjmp(_exc_head->jmpbuf)): the direct return, 0
TrySetjmp ==
  \E t \in Threads :
    /\ At(t, "try", 4)
    /\ IF Deref(_exc_head) # "none" THEN Fail(Deref(_exc_head))
       ELSE /\ node' = [node EXCEPT ![_exc_head].jmpbuf =
                           [pc |-> thr.pc[t], depth |-> 0, live |-> TRUE]]
            /\ thr' = [Goto(t, thr.pc[t] + 1, 0) EXCEPT !.setby[_exc_head] = t]
            /\ UNCHANGED <<_exc_head, _exc_node, diag, fault>>
    /\ UNCHANGED ThreadFrame

\* setjmp has returned 1: else { type var = (type)_exc_head->exception;
ThreadCatch ==
  \E t \in Threads :
    /\ At(t, "try", 0) /\ thr.jv[t] = 1
    /\ IF Deref(_exc_head) # "none" THEN Fail(Deref(_exc_head))
       ELSE /\ thr' = [Goto(t, MatchCatch(thr.pc[t]) + 1, 0) EXCEPT !.jv[t] = 0]
            /\ UNCHANGED <<_exc_head, _exc_node, node, diag, fault>>
    /\ UNCHANGED ThreadFrame

\* the protected code has ended: the else branch is skipped
ThreadEndProtected ==
  \E t \in Threads :
    /\ At(t, "catch", 0)
    /\ thr' = Goto(t, AfterProtected(RegionOfCatch(thr.pc[t])), 0)
    /\ UNCHANGED <<_exc_head, _exc_node, node, diag, fault>>
    /\ UNCHANGED ThreadFrame

\* throw(e): if (_exc_head) ... else printf(...)
ThrowTest ==
  \E t \in Threads :
    /\ At(t, "sig", 0)
    /\ IF _exc_head # NULL
       THEN /\ thr' = Goto(t, thr.pc[t], 1)
            /\ diag' = diag
       ELSE /\ diag < 2 * MaxThreadLen  \* one line per statement and thread
            /\ diag' = Report(diag)
            /\ thr' = Goto(t, thr.pc[t] + 1, 0)
    /\ UNCHANGED <<_exc_head, _exc_node, node, fault>>
    /\ UNCHANGED ThreadFrame

\* _exc_head->exception = (void*)e;
ThrowStore ==
  \E t \in Threads :
    /\ At(t, "sig", 1)
    /\ IF Deref(_exc_head) # "none" THEN Fail(Deref(_exc_head))
       ELSE /\ \E v \in IntPayloads : node' = StoreException(ToVoidPtr(v))
            /\ thr' = Goto(t, thr.pc[t], 2)
            /\ UNCHANGED <<_exc_head, _exc_node, diag, fault>>
    /\ UNCHANGED ThreadFrame

\* longjmp(_exc_head->jmpbuf, 1): defined only for a jmp_buf that a setjmp
\* of the same thread has filled
ThrowLongjmp ==
  \E t \in Threads :
    /\ At(t, "sig", 2)
    /\ IF Deref(_exc_head) # "none" THEN Fail(Deref(_exc_head))
       ELSE IF thr.setby[_exc_head] # t
       THEN /\ fault' = "ub"
            /\ thr' = [thr EXCEPT !.hit = @ \cup
                         IF thr.setby[_exc_head] = 0 THEN {"unset_jump"}
                         ELSE {"foreign_jump"}]
            /\ UNCHANGED <<_exc_head, _exc_node, node, diag>>
       ELSE /\ thr' = [Goto(t, node[_exc_head].jmpbuf.pc, 0) EXCEPT
                         !.jv[t] = 1,
                         !.hit = @ \cup IF thr.own[_exc_head] # t
                                        THEN {"foreign_target"} ELSE {}]
            /\ UNCHANGED <<_exc_head, _exc_node, node, diag, fault>>
    /\ UNCHANGED ThreadFrame

\* if (i < 0) throw(...): the condition is false
ThreadNoThrow ==
  \E t \in Threads :
    /\ At(t, "sig", 0)
    /\ thr' = Goto(t, thr.pc[t] + 1, 0)
    /\ UNCHANGED <<_exc_head, _exc_node, node, diag, fault>>
    /\ UNCHANGED ThreadFrame

\* endcatch: _exc_node = _exc_head;
EndSave ==
  \E t \in Threads :
    /\ At(t, "endcatch", 0)
    /\ _exc_node' = _exc_head
    /\ thr' = Goto(t, thr.pc[t], 1)
    /\ UNCHANGED <<_exc_head, node, diag, fault>>
    /\ UNCHANGED ThreadFrame

\* if (_exc_head->next) _exc_head = _exc_head->next; else _exc_head = 0;
EndPop ==
  \E t \in Threads :
    /\ At(t, "endcatch", 1)
    /\ IF Deref(_exc_head) # "none" THEN Fail(Deref(_exc_head))
       ELSE IF node[_exc_head].next = Uninit THEN Fail("ub")
       ELSE /\ _exc_head' = PopHead
            /\ thr' = [Goto(t, thr.pc[t], 2) EXCEPT
                         !.hit = @ \cup IF thr.own[_exc_head] # t
                                        THEN {"foreign_pop"} ELSE {}]
            /\ UNCHANGED <<_exc_node, node, diag, fault>>
    /\ UNCHANGED ThreadFrame

\* free(_exc_node);  free(NULL) does nothing, a second free is undefined
EndFree ==
  \E t \in Threads :
    /\ At(t, "endcatch", 2)
    /\ IF _exc_node = NULL
       THEN /\ thr' = Goto(t, thr.pc[t], 3)
            /\ UNCHANGED <<_exc_head, _exc_node, node, diag, fault>>
       ELSE IF ~node[_exc_node].used THEN Fail("ub")
       ELSE /\ node' = Free(_exc_node)
            /\ thr' = [Goto(t, thr.pc[t], 3) EXCEPT
                         !.hit = @ \cup IF thr.own[_exc_node] # t
                                        THEN {"foreign_free"} ELSE {}]
            /\ UNCHANGED <<_exc_head, _exc_node, diag, fault>>
    /\ UNCHANGED ThreadFrame

\* _exc_node = (void*)0;
EndClear ==
  \E t \in Threads :
    /\ At(t, "endcatch", 3)
    /\ _exc_node' = NULL
    /\ thr' = Goto(t, thr.pc[t] + 1, 0)
    /\ UNCHANGED <<_exc_head, node, diag, fault>>
    /\ UNCHANGED ThreadFrame

NextThreads ==
  \/ TryClear
  \/ TryAlloc
  \/ TryLink
  \/ TrySetHead
  \/ TrySetjmp
  \/ ThreadCatch
  \/ ThreadEndProtected
  \/ ThrowTest
  \/ ThrowStore
  \/ ThrowLongjmp
  \/ ThreadNoThrow
  \/ EndSave
  \/ EndPop
  \/ EndFree
  \/ EndClear

SpecThreads == InitThreads /\ [][NextThreads]_vars

\* a program whose statements that may signal are throw statements, run to
\* its end: a sequential program always takes its next step
NextThrowing ==
  \/ Try
  \/ Catch
  \/ EndProtected
  \/ EndCatch
  \/ Throw
  \/ RaiseException
  \/ Call
  \/ Return

SpecThrowing == Init /\ [][NextThrowing]_vars /\ WF_vars(NextThrowing)

\* the same program, written the way the README writes it: endcatch; }
InitReadme ==
  /\ prog \in Programs
  /\ form = "inside"
  /\ pc = 1
  /\ jv = 0
  /\ frames = <<>>
  /\ _exc_head = NULL
  /\ _exc_node = NULL
  /\ node = [a \in Addrs |-> FreeNode]
  /\ exc = [a \in ExcAddrs |-> FreeExc]
  /\ var = [i \in 1..Len(prog) |-> Unbound]
  /\ diag = 0
  /\ fault = "none"
  /\ act = [i \in 1..Len(prog) |-> NoAct]
  /\ sig = NoSig
  /\ other = NoStatics
  /\ thr = NoThreads

SpecReadme == InitReadme /\ [][Next]_vars

TypeOK ==
  /\ pc \in 1..(Len(prog) + 1)
  /\ jv \in {0, 1}
  /\ _exc_head \in Addrs \cup {NULL}
  /\ fault \in {"none", "ub", "crash"}

(***************************************************************************)
(* Properties.                                                             *)
(***************************************************************************)
\* a throw found a node on the stack and control has just landed on a setjmp
ThrowLanded == sig.caught /\ jv = 1 /\ fault = "none"
\* the catch clause of the region the last throw went to has bound its variable
ThrowBound ==
  /\ sig.caught /\ jv = 0 /\ fault = "none"
  /\ sig.region \in DOMAIN act
  /\ act[sig.region].state = "SIGNALED"
\* the void* a thrown value is stored as
PtrOf(kind, val) == IF kind = "int" THEN ToVoidPtr(val) ELSE val

\* C1: a throw with a non-empty stack stores its value in the top node, which
\* is the node of the innermost region open at the throw, lands on that
\* region's setjmp and runs that region's catch clause next: no statement
\* after the throw and no enclosing region's catch clause runs.
C1_InnermostTarget ==
  /\ [](ThrowLanded =>
          /\ pc = Innermost(sig.at)
          /\ _exc_head = sig.target
          /\ act[pc].node = _exc_head
          /\ node[_exc_head].exception = PtrOf(sig.kind, sig.val))
  /\ [][ThrowLanded => (pc' = MatchCatch(pc) + 1 /\ jv' = 0)]_vars

\* a throw in the protected code of a region nested in another one has landed
C1_Witness ==
  /\ ThrowLanded
  /\ Parent(pc) # 0
  /\ InProtected(pc, sig.at)

\* C2: an activation that has exited leaves the stack as deep as it was
\* before its try, on either exit path; with no region open the stack is
\* empty.
C2_StackBalance ==
  /\ \A i \in Regions : act[i].state = "EXITED" => act[i].d1 = act[i].d0
  /\ (OpenRegions = {} => _exc_head = NULL)

\* a nested region has exited through its handler, and its parent is open
C2_Witness ==
  \E i \in Regions :
    /\ act[i].state = "EXITED" /\ act[i].hruns > 0 /\ act[i].d0 = 1
    /\ Parent(i) \in OpenRegions
    /\ Depth = 1

\* C3: the variable bound by the catch clause holds the value that the throw
\* it handles was given.
C3_PayloadRoundTrip ==
  ThrowBound => var[sig.region] = [set |-> TRUE, val |-> sig.val]

\* a negative int thrown in a region and bound by its handler, after an
\* earlier throw outside every region was reported
C3_Witness ==
  /\ ThrowBound
  /\ sig.kind = "int" /\ sig.val = -1
  /\ var[sig.region].val = -1
  /\ diag > 0

\* C4: a throw with an empty stack transfers nowhere: one diagnostic, the
\* stack still empty, no handler run, control at the next statement.
C4_UncaughtContinues ==
  [][((Throw \/ RaiseException) /\ _exc_head = NULL) =>
        /\ pc' = pc + 1
        /\ jv' = 0
        /\ frames' = frames
        /\ diag' = diag + 1
        /\ _exc_head' = NULL
        /\ act' = act
        /\ var' = var
        /\ fault' = fault]_vars

\* an uncaught throw after a region that handled a throw of its own
C4_Witness ==
  /\ sig.at # 0 /\ ~sig.caught
  /\ pc = sig.at + 1
  /\ diag = 1
  /\ _exc_head = NULL
  /\ \E i \in Regions : act[i].state = "EXITED" /\ act[i].hruns > 0

\* C5: per activation the protected code runs once, the catch clause runs
\* once per throw that went to the activation's node and not at all without
\* one, and the catch clause reads a slot that a throw has written.
C5_HandlerOnlyAfterSignal ==
  /\ \A i \in Regions : act[i].state # "NONE" =>
        /\ act[i].pruns = 1
        /\ (pc = i /\ jv = 1) \/ act[i].hruns = act[i].writes
        /\ act[i].state \in {"ENTERED", "COMPLETED_NORMALLY"} => act[i].hruns = 0
  /\ (jv = 1 => /\ _exc_head # NULL
                /\ node[_exc_head].used
                /\ node[_exc_head].exception # Uninit)

\* one region completed without a throw and skipped its handler, another one
\* ran its handler
C5_Witness ==
  \E i, k \in Regions :
    /\ act[i].state = "COMPLETED_NORMALLY" /\ act[i].hruns = 0 /\ act[i].writes = 0
    /\ act[k].state = "EXITED" /\ act[k].hruns = 1 /\ act[k].writes = 1

\* C6: the pop of endcatch runs once per activation on either path, and
\* control does not leave the region before it has run.
C6_ExitExactlyOnce ==
  \A i \in Regions :
    /\ act[i].pops <= 1
    /\ act[i].state = "EXITED" => act[i].pops = 1
    /\ act[i].state \in {"ENTERED", "SIGNALED", "COMPLETED_NORMALLY"} =>
          act[i].pops = 0 /\ InRegion(i, pc, jv)

\* both exit paths taken: one region popped after normal completion, one
\* after its handler, and control is past both
C6_Witness ==
  \E i, k \in Regions :
    /\ act[i].state = "EXITED" /\ act[i].hruns = 0 /\ act[i].pops = 1
    /\ act[k].state = "EXITED" /\ act[k].hruns > 0 /\ act[k].pops = 1
    /\ pc > MatchEnd(i) /\ pc > MatchEnd(k)

\* C7: a throw in a handler clause body goes to the region that encloses the
\* handling region, or is uncaught when there is none.
C7_HandlerThrowTargetsEnclosing ==
  LET r == Innermost(sig.at)
  IN  (sig.at # 0 /\ r # 0 /\ InHandler(r, sig.at)) =>
        IF Parent(r) = 0 THEN ~sig.caught
        ELSE sig.caught /\ sig.region = Parent(r)

\* C8: a throw never goes to a region that has exited: its target is an
\* activation that is open at the throw, whose node is the one read.
C8_NoInterference ==
  /\ sig.caught => sig.was \in {"ENTERED", "SIGNALED"}
  /\ ThrowLanded =>
        /\ \A i \in Regions : MatchEnd(i) < sig.at => pc # i
        /\ InRegion(pc, sig.at, 0)
        /\ act[pc].state = "SIGNALED"
        /\ act[pc].node = _exc_head

\* a throw in the protected code of a region, after a region nested in it
\* has exited, has landed on the outer region
C8_Witness ==
  /\ ThrowLanded
  /\ InProtected(pc, sig.at)
  /\ \E i \in Regions : /\ Parent(i) = pc
                        /\ MatchEnd(i) < sig.at
                        /\ act[i].state = "EXITED"

\* C9: written as  try { } catch( ) { ...; endcatch; }  a region pops its
\* node on both exit paths, so the stack is empty after a top-level region
\* and a throw outside every region is uncaught.
C9_ReadmeFormReleases ==
  /\ \A i \in Regions : act[i].state = "EXITED" =>
        act[i].pops = 1 /\ act[i].d1 = act[i].d0
  /\ (OpenRegions = {} => _exc_head = NULL)
  /\ (sig.at # 0 /\ Enclosing(sig.at) = {} => ~sig.caught)

\* C10: raise_exception builds a fresh struct exception_t with the three
\* arguments and throws its address: same target, same effect on the stack
\* as throw, and the handler reads the three fields back.
C10_RaiseIsThrowOfPayload ==
  /\ [](sig.kind = "exc" =>
          /\ exc[sig.val].used
          /\ exc[sig.val].name = sig.args[1]
          /\ exc[sig.val].reason = sig.args[2]
          /\ exc[sig.val].userdata = sig.args[3]
          /\ ThrowBound => /\ var[sig.region].set
                           /\ exc[var[sig.region].val].name = sig.args[1]
                           /\ exc[var[sig.region].val].reason = sig.args[2]
                           /\ exc[var[sig.region].val].userdata = sig.args[3])
  /\ [][RaiseException =>
          /\ _exc_head' = _exc_head
          /\ Stack' = Stack
          /\ \E e \in ExcAddrs :
                /\ ~exc[e].used /\ exc'[e].used
                /\ \A o \in ExcAddrs \ {e} : exc'[o] = exc[o]
                /\ IF _exc_head # NULL
                   THEN /\ node'[_exc_head].exception = e
                        /\ pc' = node[_exc_head].jmpbuf.pc
                        /\ jv' = 1
                        /\ diag' = diag
                   ELSE /\ pc' = pc + 1
                        /\ jv' = 0
                        /\ diag' = diag + 1]_vars

\* a raised exception with user data was caught and bound by the handler
C10_Witness ==
  /\ ThrowBound
  /\ sig.kind = "exc"
  /\ sig.args[3] # NULL
  /\ var[sig.region].val = sig.val
  /\ exc[sig.val].name = "BAD_PARAMETER"

\* the nodes of the list, as a set
StackSet == {Stack[k] : k \in 1..Len(Stack)}

\* a throw with a non-empty stack leaves the list as it is and writes one slot
ThrowWritesTopOnly ==
  [][((Throw \/ RaiseException) /\ _exc_head # NULL) =>
        /\ _exc_head' = _exc_head
        /\ Stack' = Stack
        /\ node'[_exc_head].exception = PtrOf(sig'.kind, sig'.val)
        /\ \A a \in Addrs :
              /\ node'[a].next = node[a].next
              /\ node'[a].used = node[a].used
              /\ a # _exc_head => node'[a].exception = node[a].exception]_vars

\* C11 as stated: a throw with a non-empty stack keeps the nodes and their
\* order, writes the slot of the top node only, and the node it went to is
\* the top until the endcatch of its region.
C11_TargetStaysTop ==
  /\ ThrowWritesTopOnly
  /\ [](\A i \in Regions :
          act[i].state = "SIGNALED" => _exc_head = act[i].node)

\* C11 amended: a throw with a non-empty stack keeps the nodes and their
\* order and writes the slot of the top node only; the node it went to
\* stays on the stack until the endcatch of its region, and is the top
\* except while a region entered in the handler clause is open.
C11_ThrowKeepsShape ==
  /\ ThrowWritesTopOnly
  /\ [](\A i \in Regions :
          act[i].state = "SIGNALED" =>
             /\ act[i].node \in StackSet
             /\ MaxOf(OpenRegions) = i => _exc_head = act[i].node)

\* a throw has gone to a region, and a region entered in its handler clause
\* is open: the node the throw wrote is the second of the list and holds
\* the value thrown
C11_Witness ==
  /\ sig.caught /\ fault = "none"
  /\ Depth = 2
  /\ act[sig.region].state = "SIGNALED"
  /\ Stack[2] = act[sig.region].node
  /\ node[Stack[2]].exception = PtrOf(sig.kind, sig.val)
  /\ MaxOf(OpenRegions) # sig.region
  /\ Parent(MaxOf(OpenRegions)) = sig.region
\* the nodes of a set of regions, innermost region first
RECURSIVE NodesOf(_)
NodesOf(S) ==
  IF S = {} THEN <<>>
  ELSE LET i == MaxOf(S) IN <<act[i].node>> \o NodesOf(S \ {i})

\* C12: in a program written  try { } catch( ) { } endcatch;  the list from
\* _exc_head holds exactly the nodes of the regions entered and not yet
\* exited, innermost first, all of them allocated, and so no node of a
\* region that has exited; it is not empty while
\* control is in a region, so catch and endcatch never dereference NULL.
C12_RegionStackInvariant ==
  /\ Stack = NodesOf(OpenRegions)
  /\ \A k \in 1..Len(Stack) : node[Stack[k]].used
  /\ Len(Stack) = Cardinality(OpenRegions)
  /\ OpenRegions # {} => _exc_head # NULL
  /\ (Tok = "endcatch" \/ (Tok = "try" /\ jv = 1)) => _exc_head # NULL
  /\ fault = "none"

\* control is at the endcatch of a nested region whose handler has run
C12_Witness ==
  /\ Tok = "endcatch"
  /\ Depth = 2
  /\ act[RegionOfEnd(pc)].state = "SIGNALED"
  /\ Parent(RegionOfEnd(pc)) \in OpenRegions
  /\ Stack = <<act[RegionOfEnd(pc)].node, act[Parent(RegionOfEnd(pc))].node>>

\* C13: try makes a newly allocated node the top, its next the previous top
\* (NULL when the list was empty), and changes no other node; endcatch
\* removes the top, makes its next the new top, frees it and changes no
\* other node.  The depth goes up by one and down by one.
C13_PushPopSteps ==
  /\ [][Try =>
          /\ _exc_head' # NULL
          /\ ~node[_exc_head'].used
          /\ node'[_exc_head'].used
          /\ node'[_exc_head'].next = _exc_head
          /\ Stack' = <<_exc_head'>> \o Stack
          /\ Depth' = Depth + 1
          /\ \A b \in Addrs \ {_exc_head'} : node'[b] = node[b]]_vars
  /\ [][(EndCatch /\ _exc_head # NULL) =>
          /\ _exc_head' = node[_exc_head].next
          /\ Stack' = Tail(Stack)
          /\ Depth' = Depth - 1
          /\ ~node'[_exc_head].used
          /\ \A b \in Addrs \ {_exc_head} : node'[b] = node[b]]_vars

\* a nested region has just been popped: its node was pushed on one node
\* and its endcatch left that node as the top
C13_Witness ==
  \E i \in Regions :
    /\ pc = MatchEnd(i) + 1
    /\ act[i].state = "EXITED" /\ act[i].d0 = 1
    /\ Depth = 1
    /\ _exc_head = act[Parent(i)].node
    /\ _exc_node = NULL

\* C14: between the try of a region and its endcatch at most one throw
\* stores a value into the node of the region.
C14_WriteOnce ==
  \A i \in Regions : act[i].writes <= 1

\* C17: every node allocated by try is freed once, by the endcatch of the
\* region that allocated it: the allocated nodes are the nodes on the list,
\* endcatch frees the allocated node of its own region, no region pops
\* twice, and no node is left allocated at the end of the program.
C17_NodeOwnership ==
  /\ [](/\ \A a \in Addrs : node[a].used <=> a \in StackSet
        /\ \A a \in Addrs : node[a].used => node[a].jmpbuf.live
        /\ _exc_node # NULL => node[_exc_node].used
        /\ \A i \in Regions : act[i].pops <= 1
        /\ pc = Len(prog) + 1 => \A a \in Addrs : ~node[a].used)
  /\ [][EndCatch =>
          /\ _exc_head # NULL
          /\ node[_exc_head].used
          /\ _exc_head = act[RegionOfEnd(pc)].node
          /\ ~node'[_exc_head].used
          /\ \A b \in Addrs \ {_exc_head} : node'[b].used = node[b].used]_vars

\* the program has ended after a region and a region nested in it, one of
\* them left through its handler, and no node is allocated
C17_Witness ==
  /\ pc = Len(prog) + 1
  /\ fault = "none"
  /\ \A a \in Addrs : ~node[a].used
  /\ \E i, k \in Regions :
        /\ Parent(k) = i
        /\ act[i].state = "EXITED" /\ act[k].state = "EXITED"
        /\ act[k].hruns > 0
\* the state of the region whose try is token i, NONE where i is no try
StateOf(i) == IF i \in Regions THEN act[i].state ELSE "NONE"

\* C18: a program of try regions and throw statements, without loops,
\* reaches its end with the list empty, and every region that was entered
\* reaches its endcatch.
C18_Terminates ==
  /\ <>(pc = Len(prog) + 1 /\ _exc_head = NULL)
  /\ \A i \in 1..MaxProgLen :
        (StateOf(i) = "ENTERED") ~> (StateOf(i) = "EXITED")
\* C16: a throw executed inside a region, also one in a function that is
\* defined in another source file and called from the region, goes to the
\* handler of the innermost region around it and is not reported uncaught.
C16_OneStack ==
  (sig.at # 0 /\ Enclosing(sig.at) # {}) =>
     (sig.caught /\ sig.region = Innermost(sig.at))
\* thread t has not run a statement yet
NotStarted(t) == thr.pc[t] = 1 /\ thr.ip[t] = 0 /\ thr.jv[t] = 0
\* thread t is between the malloc of a try and the end of its endcatch
InsideRegion(t) ==
  \E i \in Regions :
     \/ i < thr.pc[t] /\ thr.pc[t] <= MatchEnd(i)
     \/ thr.pc[t] = i /\ (thr.jv[t] = 1 \/ thr.ip[t] >= 2)
\* every jump and every pop so far used a node of the thread that made it,
\* nothing undefined has happened, and every allocated node belongs to a
\* thread that is in a region
Paired ==
  /\ fault = "none"
  /\ thr.hit = {}
  /\ \A a \in Addrs : node[a].used =>
        thr.own[a] \in Threads /\ InsideRegion(thr.own[a])

\* C15: two threads on the one list break the pairing of try and endcatch
\* only by interleaving: while one of the two has not started, the other
\* jumps to, pops and frees its own nodes only; once both run there are
\* interleavings in which a thread pops and frees the other's node.
C15_SharedStackUnsound ==
  (\E t \in Threads : NotStarted(t)) => Paired

\* both threads run, nothing undefined has happened, and the endcatch of
\* one thread has popped and freed the node the other thread pushed, while
\* the other thread is still in its region
C15_Witness ==
  /\ fault = "none"
  /\ {"foreign_pop", "foreign_free"} \subseteq thr.hit
  /\ \E t \in Threads :
        /\ InsideRegion(t)
        /\ \A a \in Addrs : thr.own[a] = t => ~node[a].used
====
